---- MODULE Spec2Model ----
(***************************************************************************)
(* Model of the CI/CD healing workflow of RIFT_2026:                       *)
(*   server/agents/orchestrator.py  - the LangGraph state machine          *)
(*   server/agents/cicd_monitor.py  - the pipeline verdicts                *)
(*   server/agents/git_agent.py     - the VCS calls that raise             *)
(*   server/api/main.py             - the background task and the registry *)
(*                                                                         *)
(* One run is modelled.  The collaborators (clone, analyze, detection,     *)
(* repair, commit, pipeline check) are external: every node draws the      *)
(* collaborator's outcome from the set of outcomes its code can produce.   *)
(***************************************************************************)
EXTENDS Integers, Sequences, FiniteSets, TLC

(***************************************************************************)
(* Bounds of the model (not program constants).                            *)
(***************************************************************************)
\* largest number of failures one detection pass returns
MaxFailures == 2
\* largest number of fix records one repair call returns
MaxFixes == 2
\* largest counters drawn as inputs of the stand-alone Finalize check
MaxFinInput == 3

(***************************************************************************)
(* Program constants.                                                      *)
(***************************************************************************)
\* orchestrator.py:305  max_iterations=5
max_iterations == 5
\* orchestrator.py:83   base_score = 100
base_score == 100
\* orchestrator.py:86   elapsed < 300
SpeedLimit == 300
\* orchestrator.py:87   commit_count - 20
FreeCommits == 20

Nodes == {"clone_repo", "analyze_repo", "create_branch", "run_tests",
          "fix_code", "commit_fixes", "monitor_cicd", "finalize"}

\* Python None in the error field
NoError == "None"

\* statuses CICDMonitorAgent.check_pipeline returns
PipelineStatuses == {"passed", "failed", "completed"}

\* time.time() - start_time, in tenths of a second, sampled on both sides
\* of the speed limit
ElapsedSamples == {1200, 2997, 3000, 3004}

VARIABLES
    state,        \* the AgentState dictionary passed from node to node
    pc,           \* the node the graph executes next; "END", "ABORTED"
    prev,         \* the node executed last ("START" before the first)
    run_results,  \* registry entry of the run in api/main.py
    executed,     \* history: how many times each node has completed
    everFound,    \* history: some detection pass returned a failure
    raisedIn,     \* history: the node whose collaborator raised, or "none"
    verdicts,     \* history: the statuses check_pipeline returned, in order
    cancelledAt,  \* history: "node" when the first cancel_run came while a
                  \* node was due, "end" when it came later, else "none"
    call          \* the function call of the stand-alone function checks

vars == <<state, pc, prev, run_results, executed, everFound, raisedIn,
          verdicts, cancelledAt, call>>

\* no stand-alone function call is in progress
NoCall == [fn |-> "none"]

(***************************************************************************)
(* Values the collaborators return.                                        *)
(***************************************************************************)
\* a detection pass returns a deduplicated list of k failures
FailureList(k) == [i \in 1..k |-> i]
DetectionResults == {FailureList(k) : k \in 0..MaxFailures}

\* a repair call returns a list of k fix records (possibly none)
FixList(k) == [i \in 1..k |-> "fix"]
FixResults == {FixList(k) : k \in 0..MaxFixes}

\* RepoAnalyzerAgent.analyze returns (all_files, test_files)
AnalyzeResults(repo_path) ==
    IF repo_path = ""
    THEN {[files |-> <<>>, tests |-> <<>>]}
    ELSE {[files |-> <<>>, tests |-> <<>>],
          [files |-> <<"a.py">>, tests |-> <<>>],
          [files |-> <<"a.py", "test_a.py">>, tests |-> <<"test_a.py">>]}

(***************************************************************************)
(* Pure functions of the orchestrator.                                     *)
(***************************************************************************)
Max(a, b) == IF a >= b THEN a ELSE b

calculate_score_noClamp(s, elapsed) ==
    LET speed_bonus == IF elapsed < SpeedLimit * 10 THEN 10 ELSE 0
        efficiency_penalty == Max(0, s.commit_count - FreeCommits) * 2
        final_score == base_score + speed_bonus - efficiency_penalty
    IN  [base_score |-> base_score,
         speed_bonus |-> speed_bonus,
         efficiency_penalty |-> efficiency_penalty,
         final_score |-> final_score,
         elapsed_seconds |-> elapsed \div 10]

calculate_score_noAllowance(s, elapsed) ==
    LET speed_bonus == IF elapsed < SpeedLimit * 10 THEN 10 ELSE 0
        efficiency_penalty == Max(0, s.commit_count) * 2
        final_score == base_score + speed_bonus - efficiency_penalty
    IN  [base_score |-> base_score,
         speed_bonus |-> speed_bonus,
         efficiency_penalty |-> efficiency_penalty,
         final_score |-> Max(0, final_score),
         elapsed_seconds |-> elapsed \div 10]

\* elapsed is in tenths of a second; int(elapsed) truncates to seconds
calculate_score(s, elapsed) ==
    LET speed_bonus == IF elapsed < SpeedLimit * 10 THEN 10 ELSE 0
        efficiency_penalty == Max(0, s.commit_count - FreeCommits) * 2
        final_score == base_score + speed_bonus - efficiency_penalty
    IN  [base_score |-> base_score,
         speed_bonus |-> speed_bonus,
         efficiency_penalty |-> efficiency_penalty,
         final_score |-> Max(0, final_score),
         elapsed_seconds |-> elapsed \div 10]

should_fix_always(s) == "fix"

should_fix(s) ==
    IF Len(s.failures) > 0 THEN "fix" ELSE "done"

should_retry_noBound(s) ==
    IF ~s.all_tests_passed THEN "retry" ELSE "done"

should_retry_offByOne(s) ==
    IF ~s.all_tests_passed /\ s.iteration <= s.max_iterations
    THEN "retry" ELSE "done"

should_retry(s) ==
    IF ~s.all_tests_passed /\ s.iteration < s.max_iterations
    THEN "retry" ELSE "done"

\* the unconditional edges of _build_graph
edge_skipCommit(node) ==
    CASE node = "clone_repo" -> "analyze_repo"
      [] node = "analyze_repo" -> "create_branch"
      [] node = "create_branch" -> "run_tests"
      [] node = "fix_code" -> "monitor_cicd"
      [] node = "commit_fixes" -> "monitor_cicd"
      [] node = "finalize" -> "END"

edge(node) ==
    CASE node = "clone_repo" -> "analyze_repo"
      [] node = "analyze_repo" -> "create_branch"
      [] node = "create_branch" -> "run_tests"
      [] node = "fix_code" -> "commit_fixes"
      [] node = "commit_fixes" -> "monitor_cicd"
      [] node = "finalize" -> "END"

cicd_run_sameIteration(s, status) ==
    [iteration |-> s.iteration, status |-> status]

\* the PipelineRun record _monitor_cicd appends
cicd_run(s, status) ==
    [iteration |-> s.iteration + 1, status |-> status]

next_iteration_onFailure(s, status) ==
    IF status = "passed" THEN s.iteration ELSE s.iteration + 1

\* orchestrator.py:250  "iteration": state["iteration"] + 1
next_iteration(s, status) == s.iteration + 1

all_passed_notFailed(status) == status # "failed"

all_passed_lenient(status) == status \in {"passed", "completed"}

\* orchestrator.py:245  all_passed = run_result["status"] == "passed"
all_passed(status) == status = "passed"

final_status_passedFirst(s) ==
    IF s.all_tests_passed THEN "PASSED"
    ELSE IF s.total_failures = 0 /\ s.total_fixes = 0 THEN "NO_ISSUES_FOUND"
    ELSE IF s.total_fixes > 0 /\ Len(s.failures) = 0 THEN "PASSED"
    ELSE "FAILED"

final_status_anyFix(s) ==
    IF s.total_failures = 0 /\ s.total_fixes = 0 THEN "NO_ISSUES_FOUND"
    ELSE IF s.all_tests_passed THEN "PASSED"
    ELSE IF s.total_fixes > 0 THEN "PASSED"
    ELSE "FAILED"

final_status_noFixRule(s) ==
    IF s.total_failures = 0 /\ s.total_fixes = 0 THEN "NO_ISSUES_FOUND"
    ELSE IF s.all_tests_passed THEN "PASSED"
    ELSE "FAILED"

\* the if/elif chain of _finalize
final_status_of(s) ==
    IF s.total_failures = 0 /\ s.total_fixes = 0 THEN "NO_ISSUES_FOUND"
    ELSE IF s.all_tests_passed THEN "PASSED"
    ELSE IF s.total_fixes > 0 /\ Len(s.failures) = 0 THEN "PASSED"
    ELSE IF Len(s.failures) > 0 /\ s.iteration >= s.max_iterations THEN "FAILED"
    ELSE "FAILED"

\* the record run() returns
_build_result(s) ==
    [total_failures |-> s.total_failures,
     total_fixes |-> s.total_fixes,
     commit_count |-> s.commit_count,
     final_status |-> s.final_status,
     score |-> s.score,
     fixes_applied |-> s.fixes_applied,
     cicd_runs |-> s.cicd_runs,
     messages |-> s.messages,
     error |-> s.error]

(***************************************************************************)
(* Initial state: run_agent registers the run, run() builds initial_state. *)
(***************************************************************************)
initial_state ==
    [repo_url |-> "https://github.com/o/r",
     team_name |-> "team",
     leader_name |-> "leader",
     branch_name |-> "TEAM_LEADER_AI_Fix",
     repo_path |-> "",
     start_time |-> 0,
     files_discovered |-> <<>>,
     test_files |-> <<>>,
     failures |-> <<>>,
     total_failures |-> 0,
     fixes_applied |-> <<>>,
     total_fixes |-> 0,
     commit_count |-> 0,
     cicd_runs |-> <<>>,
     iteration |-> 0,
     max_iterations |-> max_iterations,
     all_tests_passed |-> FALSE,
     final_status |-> "RUNNING",
     score |-> <<>>,
     error |-> NoError,
     messages |-> <<>>]

Init ==
    /\ state = initial_state
    /\ pc = "clone_repo"
    /\ prev = "START"
    /\ run_results = [status |-> "RUNNING", error |-> NoError, result |-> <<>>]
    /\ executed = [n \in Nodes |-> 0]
    /\ everFound = FALSE
    /\ raisedIn = "none"
    /\ verdicts = <<>>
    /\ cancelledAt = "none"
    /\ call = NoCall

\* bookkeeping shared by every node that completes
Completed(node, next) ==
    /\ pc' = next
    /\ prev' = node
    /\ executed' = [executed EXCEPT ![node] = @ + 1]

\* an exception leaves the graph, run() and reaches the handler of
\* _run_agent_task without any await in between
Raise(node, msg) ==
    /\ pc' = "ABORTED"
    /\ raisedIn' = node
    /\ run_results' = [run_results EXCEPT !.status = "ERROR", !.error = msg]
    /\ UNCHANGED <<state, prev, executed, everFound, verdicts,
                 cancelledAt, call>>

(***************************************************************************)
(* The nodes.                                                              *)
(***************************************************************************)
CloneOk ==
    /\ pc = "clone_repo"
    /\ state' = [state EXCEPT !.repo_path = "repo",
                              !.messages = Append(@, "Cloned repo")]
    /\ Completed("clone_repo", edge("clone_repo"))
    /\ UNCHANGED <<run_results, everFound, raisedIn, verdicts,
                 cancelledAt, call>>

\* the except branch of _clone_repo; the edge to analyze_repo is unconditional
CloneFail ==
    /\ pc = "clone_repo"
    /\ state' = [state EXCEPT !.error = "Clone failed"]
    /\ Completed("clone_repo", edge("clone_repo"))
    /\ UNCHANGED <<run_results, everFound, raisedIn, verdicts,
                 cancelledAt, call>>

AnalyzeRepo ==
    /\ pc = "analyze_repo"
    /\ \E r \in AnalyzeResults(state.repo_path) :
          state' = [state EXCEPT !.files_discovered = r.files,
                                 !.test_files = r.tests,
                                 !.messages = Append(@, "Found test files")]
    /\ Completed("analyze_repo", edge("analyze_repo"))
    /\ UNCHANGED <<run_results, everFound, raisedIn, verdicts,
                 cancelledAt, call>>

CreateBranchOk ==
    /\ pc = "create_branch"
    /\ state' = [state EXCEPT !.messages = Append(@, "Created branch")]
    /\ Completed("create_branch", edge("create_branch"))
    /\ UNCHANGED <<run_results, everFound, raisedIn, verdicts,
                 cancelledAt, call>>

\* GitAgent.create_branch raises when a git command fails
CreateBranchRaise ==
    /\ pc = "create_branch"
    /\ Raise("create_branch", "git failed")

RunTests_accumulates ==
    /\ pc = "run_tests"
    /\ \E failures \in DetectionResults :
          /\ state' = [state EXCEPT !.failures = failures,
                                    !.total_failures = @ + Len(failures),
                                    !.messages = Append(@, "Found failures")]
          /\ everFound' = (everFound \/ Len(failures) > 0)
    /\ Completed("run_tests",
                 IF should_fix(state') = "fix" THEN "fix_code" ELSE "finalize")
    /\ UNCHANGED <<run_results, raisedIn, verdicts, cancelledAt, call>>

RunTests ==
    /\ pc = "run_tests"
    /\ \E failures \in DetectionResults :
          /\ state' = [state EXCEPT !.failures = failures,
                                    !.total_failures = Len(failures),
                                    !.messages = Append(@, "Found failures")]
          /\ everFound' = (everFound \/ Len(failures) > 0)
    /\ Completed("run_tests",
                 IF should_fix(state') = "fix" THEN "fix_code" ELSE "finalize")
    /\ UNCHANGED <<run_results, raisedIn, verdicts,
                 cancelledAt, call>>

FixCode_clearsFailures ==
    /\ pc = "fix_code"
    /\ \E fixes \in FixResults :
          state' = [state EXCEPT !.failures = <<>>,
                                 !.fixes_applied = @ \o fixes,
                                 !.total_fixes = @ + Len(fixes),
                                 !.messages = Append(@, "Applied fixes")]
    /\ Completed("fix_code", edge("fix_code"))
    /\ UNCHANGED <<run_results, everFound, raisedIn, verdicts,
                 cancelledAt, call>>

FixCode ==
    /\ pc = "fix_code"
    /\ \E fixes \in FixResults :
          state' = [state EXCEPT !.fixes_applied = @ \o fixes,
                                 !.total_fixes = @ + Len(fixes),
                                 !.messages = Append(@, "Applied fixes")]
    /\ Completed("fix_code", edge("fix_code"))
    /\ UNCHANGED <<run_results, everFound, raisedIn, verdicts,
                 cancelledAt, call>>

\* commit_and_push returns normally both when it commits and when there is
\* nothing to commit
CommitFixesOk ==
    /\ pc = "commit_fixes"
    /\ state' = [state EXCEPT !.commit_count = @ + 1,
                              !.messages = Append(@, "Committed")]
    /\ Completed("commit_fixes", edge("commit_fixes"))
    /\ UNCHANGED <<run_results, everFound, raisedIn, verdicts,
                 cancelledAt, call>>

\* GitAgent.commit_and_push raises when add, commit or push fails
CommitFixesRaise ==
    /\ pc = "commit_fixes"
    /\ Raise("commit_fixes", "git failed")

MonitorCicd ==
    /\ pc = "monitor_cicd"
    /\ \E status \in PipelineStatuses :
          /\ state' = [state EXCEPT
                 !.cicd_runs = Append(@, cicd_run(state, status)),
                 !.iteration = next_iteration(state, status),
                 !.all_tests_passed = all_passed(status),
                 !.messages = Append(@, "CI/CD iteration")]
          /\ verdicts' = Append(verdicts, status)
    /\ Completed("monitor_cicd",
                 IF should_retry(state') = "retry" THEN "run_tests"
                                                   ELSE "finalize")
    /\ UNCHANGED <<run_results, everFound, raisedIn, cancelledAt, call>>

Finalize ==
    /\ pc = "finalize"
    /\ \E elapsed \in ElapsedSamples :
          state' = [state EXCEPT
              !.score = <<calculate_score(state, elapsed)>>,
              !.final_status = final_status_of(state),
              !.messages = Append(@, "Completed!")]
    /\ Completed("finalize", edge("finalize"))
    /\ UNCHANGED <<run_results, everFound, raisedIn, verdicts,
                 cancelledAt, call>>

\* run() returns the result and _run_agent_task stores it in the registry,
\* whatever the status of the entry is; it does so once
TaskCompleted ==
    /\ pc = "END"
    /\ run_results.result = <<>>
    /\ run_results' = [run_results EXCEPT
                          !.status = "COMPLETED",
                          !.result = <<_build_result(state)>>]
    /\ UNCHANGED <<state, pc, prev, executed, everFound, raisedIn, verdicts,
                   cancelledAt, call>>

CancelRun_interrupts ==
    /\ run_results.status # "CANCELLED"
    /\ run_results' = [run_results EXCEPT !.status = "CANCELLED"]
    /\ cancelledAt' = IF cancelledAt # "none" THEN cancelledAt
                       ELSE IF pc \in Nodes THEN "node" ELSE "end"
    /\ pc' = IF pc \in Nodes THEN "ABORTED" ELSE pc
    /\ UNCHANGED <<state, prev, executed, everFound, raisedIn, verdicts, call>>

\* DELETE /api/run/{run_id}: cancel_run sets the status of the entry in
\* place and touches nothing else; it can be called at any time
CancelRun ==
    /\ run_results.status # "CANCELLED"
    /\ run_results' = [run_results EXCEPT !.status = "CANCELLED"]
    /\ cancelledAt' = IF cancelledAt # "none" THEN cancelledAt
                       ELSE IF pc \in Nodes THEN "node" ELSE "end"
    /\ UNCHANGED <<state, pc, prev, executed, everFound, raisedIn, verdicts,
                   call>>

Next ==
    \/ CloneOk
    \/ CloneFail
    \/ AnalyzeRepo
    \/ CreateBranchOk
    \/ CreateBranchRaise
    \/ RunTests
    \/ FixCode
    \/ CommitFixesOk
    \/ CommitFixesRaise
    \/ MonitorCicd
    \/ Finalize
    \/ TaskCompleted
    \/ CancelRun

Spec == Init /\ [][Next]_vars

(***************************************************************************)
(* Stand-alone check of _finalize: the node applied to arbitrary counters, *)
(* including combinations the workflow itself never produces.              *)
(***************************************************************************)
\* commit counts on both sides of the free-commit allowance, up to a
\* penalty larger than the best score
CommitSamples == {0, 20, 21, 25, 80}

InitFinalize ==
    /\ \E tf \in 0..MaxFinInput, tx \in 0..MaxFinInput, k \in 0..MaxFinInput,
          ap \in BOOLEAN, it \in 0..max_iterations, cc \in CommitSamples :
          state = [initial_state EXCEPT !.repo_path = "repo",
                                        !.commit_count = cc,
                                        !.total_failures = tf,
                                        !.total_fixes = tx,
                                        !.fixes_applied = FixList(tx),
                                        !.failures = FailureList(k),
                                        !.all_tests_passed = ap,
                                        !.iteration = it]
    /\ pc = "finalize"
    /\ prev = "START"
    /\ run_results = [status |-> "RUNNING", error |-> NoError, result |-> <<>>]
    /\ executed = [n \in Nodes |-> 0]
    /\ everFound = FALSE
    /\ raisedIn = "none"
    /\ verdicts = <<>>
    /\ cancelledAt = "none"
    /\ call = NoCall

NextFinalize ==
    \/ Finalize
    \/ TaskCompleted

SpecFinalize == InitFinalize /\ [][NextFinalize]_vars

(***************************************************************************)
(* Properties.                                                             *)
(***************************************************************************)
\* every pipeline check of the run so far returned "completed" (no CI/CD)
NoCICD ==
    \A i \in 1..Len(state.cicd_runs) : state.cicd_runs[i].status = "completed"

\* C1: MonitorPipeline completes at most max_iterations (5) times in a run
\* and iteration never exceeds max_iterations, whatever the collaborators
\* return.
C1_IterationBound ==
    /\ state.max_iterations = 5
    /\ state.iteration <= state.max_iterations
    /\ executed["monitor_cicd"] <= state.max_iterations

C1_Witness ==
    /\ pc = "finalize"
    /\ prev = "monitor_cicd"
    /\ executed["monitor_cicd"] = 5
    /\ state.iteration = 5

\* C2: every run ends in Finalize: once the run is over, Finalize has been
\* executed exactly once and finalStatus is no longer RUNNING.
C2_RunEndsInFinalize ==
    /\ executed["finalize"] <= 1
    /\ (run_results.status # "RUNNING") =>
          (executed["finalize"] = 1 /\ state.final_status # "RUNNING")

\* C3: Finalize sets finalStatus by the four rules in order, first match
\* wins: no failures and no fixes -> NO_ISSUES_FOUND; allTestsPassed ->
\* PASSED; fixes applied and no current failures -> PASSED; else FAILED.
C3_FinalizeRules ==
    pc = "END" =>
      /\ state.final_status =
            IF state.total_failures = 0 /\ state.total_fixes = 0
            THEN "NO_ISSUES_FOUND"
            ELSE IF state.all_tests_passed THEN "PASSED"
            ELSE IF state.total_fixes > 0 /\ state.failures = <<>>
            THEN "PASSED"
            ELSE "FAILED"
      /\ (state.total_failures = 3 /\ state.total_fixes = 3
          /\ state.failures = <<>>) => state.final_status = "PASSED"
      /\ (state.total_failures = 3 /\ state.total_fixes = 1
          /\ Len(state.failures) = 2 /\ state.iteration = 5
          /\ ~state.all_tests_passed) => state.final_status = "FAILED"

C3_Witness ==
    /\ pc = "END"
    /\ state.total_failures = 3
    /\ state.total_fixes = 3
    /\ state.failures = <<>>
    /\ ~state.all_tests_passed
    /\ state.final_status = "PASSED"

\* C4: a run ends NO_ISSUES_FOUND only if no detection pass of the run ever
\* returned a failure and no fix was applied.
C4_NoIssuesOnlyIfHealthy ==
    state.final_status = "NO_ISSUES_FOUND" =>
        (~everFound /\ state.total_fixes = 0)

\* C5: after MonitorPipeline the engine goes to RunTests iff allTestsPassed
\* is false and iteration < maxIterations in the state that pass produced,
\* and to Finalize otherwise.
C5_RetryIff ==
    [][(pc = "monitor_cicd" /\ executed' # executed) =>
         /\ pc' \in {"run_tests", "finalize"}
         /\ (pc' = "run_tests") <=>
               (~state'.all_tests_passed
                /\ state'.iteration < state'.max_iterations)]_vars

C5_Witness ==
    /\ prev = "monitor_cicd"
    /\ pc = "run_tests"
    /\ ~state.all_tests_passed
    /\ state.iteration < state.max_iterations

\* C6: after RunTests the engine goes to FixCode iff the failure list that
\* pass produced is non-empty, and to Finalize otherwise; FixCode is never
\* entered with an empty failure list.
C6_FixIffFailures ==
    /\ [](pc = "fix_code" => Len(state.failures) > 0)
    /\ [][(pc = "run_tests" /\ executed' # executed) =>
            /\ pc' \in {"fix_code", "finalize"}
            /\ (pc' = "fix_code") <=> (Len(state'.failures) > 0)]_vars

C6_Witness ==
    /\ prev = "run_tests"
    /\ pc = "fix_code"
    /\ Len(state.failures) > 0

\* C7: when the clone fails the error is recorded and no node between Clone
\* and Finalize is executed.
C7_CloneFailureJumpsToFinalize ==
    state.error # NoError =>
        \A n \in Nodes \ {"clone_repo", "finalize"} : executed[n] = 0

\* C8: when a collaborator call of a node raises, the run still produces a
\* result record, with finalStatus FAILED and a non-empty error.
C8_RaiseEndsInFailedResult ==
    raisedIn # "none" =>
        /\ Len(run_results.result) = 1
        /\ run_results.result[1].final_status = "FAILED"
        /\ run_results.result[1].error # NoError

\* C9: when the loop stops because the budget is exhausted (iteration =
\* maxIterations after a pipeline check that did not return passed), the
\* run's finalStatus is FAILED.
C9_BudgetExhaustedFails ==
    (/\ pc = "END"
     /\ state.iteration = state.max_iterations
     /\ state.cicd_runs[Len(state.cicd_runs)].status # "passed")
    => state.final_status = "FAILED"

C9_Witness ==
    /\ pc = "END"
    /\ state.iteration = state.max_iterations
    /\ state.cicd_runs[Len(state.cicd_runs)].status = "completed"
    /\ state.total_fixes > 0
    /\ state.final_status = "FAILED"

\* C10 (as stated): without CI/CD a run that found at least one failure
\* performs maxIterations MonitorPipeline passes before Finalize.
C10_NoCICDRunsFullBudget ==
    (pc = "finalize" /\ NoCICD /\ everFound) =>
        executed["monitor_cicd"] = state.max_iterations

\* C10 (amended): without CI/CD a run that found at least one failure
\* enters Finalize either after maxIterations MonitorPipeline passes or,
\* earlier, directly from a RunTests pass that returned no failures.
C10_NoCICDStopsOnlyWhenClean ==
    (pc = "finalize" /\ NoCICD /\ everFound) =>
        \/ executed["monitor_cicd"] = state.max_iterations
        \/ (prev = "run_tests" /\ state.failures = <<>>)

C10_Witness ==
    /\ pc = "finalize"
    /\ NoCICD
    /\ everFound
    /\ prev = "monitor_cicd"
    /\ executed["monitor_cicd"] = state.max_iterations

\* C11: iteration starts at 0, every MonitorPipeline pass adds exactly one
\* to it whatever the verdict, and no other node changes it.
C11_IterationCountsMonitorPasses ==
    /\ (prev = "START" => state.iteration = 0)
    /\ state.iteration = executed["monitor_cicd"]
    /\ state.iteration = Len(verdicts)

C11_Witness ==
    /\ state.iteration = 3
    /\ verdicts = <<"failed", "completed", "passed">>
    /\ pc = "END"

\* C12: one PipelineRun record is appended per monitoring call and records
\* are never changed: len(cicd_runs) = iteration and the k-th record has
\* iteration field k and the status the k-th pipeline check returned.
C12_OneRecordPerCheck ==
    /\ Len(state.cicd_runs) = state.iteration
    /\ Len(state.cicd_runs) = Len(verdicts)
    /\ \A k \in 1..Len(state.cicd_runs) :
          /\ state.cicd_runs[k].iteration = k
          /\ state.cicd_runs[k].status = verdicts[k]

C12_Witness ==
    /\ Len(state.cicd_runs) = 2
    /\ state.cicd_runs[1] = [iteration |-> 1, status |-> "completed"]
    /\ state.cicd_runs[2] = [iteration |-> 2, status |-> "failed"]
    /\ prev = "monitor_cicd"

\* C13: all_tests_passed is true only if the most recent pipeline check
\* returned passed; a completed or failed verdict leaves it false and a
\* detection pass without failures never sets it.
C13_PassedOnlyViaPipeline ==
    /\ state.all_tests_passed =>
          (Len(verdicts) > 0 /\ verdicts[Len(verdicts)] = "passed")
    /\ (Len(verdicts) > 0 /\ verdicts[Len(verdicts)] # "passed") =>
          ~state.all_tests_passed
    /\ Len(verdicts) = 0 => ~state.all_tests_passed

C13_Witness ==
    /\ prev = "run_tests"
    /\ state.failures = <<>>
    /\ Len(verdicts) > 0
    /\ verdicts[Len(verdicts)] = "completed"
    /\ ~state.all_tests_passed
    /\ pc = "finalize"

C19_ScoreFormula ==
    pc = "END" =>
      LET sc == state.score[1]
          c == state.commit_count
          bonus == IF sc.elapsed_seconds < 300 THEN 10 ELSE 0
          penalty == IF c > 20 THEN 2 * (c - 20) ELSE 0
          total == 100 + bonus - penalty
      IN  /\ sc.base_score = 100
          /\ sc.speed_bonus = bonus
          /\ sc.efficiency_penalty = penalty
          /\ sc.final_score = (IF total > 0 THEN total ELSE 0)
          /\ sc.final_score >= 0
          /\ sc.speed_bonus \in {0, 10}
          /\ (sc.elapsed_seconds = 120 /\ c = 25) =>
                (sc.speed_bonus = 10 /\ sc.efficiency_penalty = 10
                 /\ sc.final_score = 100)

C19_Witness ==
    /\ pc = "END"
    /\ state.commit_count = 25
    /\ state.score[1].elapsed_seconds = 120
    /\ state.score[1].final_score = 100

\* a step of the workflow task: a node, or the end of the task
TaskStep ==
    \/ CloneOk \/ CloneFail \/ AnalyzeRepo \/ CreateBranchOk
    \/ CreateBranchRaise \/ RunTests \/ FixCode \/ CommitFixesOk
    \/ CommitFixesRaise \/ MonitorCicd \/ Finalize \/ TaskCompleted

\* C24: the registry entry of a run is written only by the workflow task
\* that owns the run; no other request handler changes it.
C24_SingleWriter ==
    [][run_results' # run_results => TaskStep]_vars

\* C25: cancelling a run changes only the status of its registry entry; the
\* workflow is not interrupted: it stays at the node it was at, and at every
\* later node of a cancelled run the node can still be executed, up to
\* Finalize and the end of the task.
C25_CancelIsCooperative ==
    /\ [][(run_results.status # "CANCELLED"
           /\ run_results'.status = "CANCELLED") =>
             /\ run_results' = [run_results EXCEPT !.status = "CANCELLED"]
             /\ UNCHANGED <<state, pc, prev, executed>>]_vars
    /\ []((cancelledAt = "node" /\ (pc \in Nodes \/ pc = "END")
           /\ run_results.result = <<>>) => ENABLED TaskStep)

\* a run cancelled while a node was due went through repair, pipeline
\* checks and Finalize and still shows the cancelled status
C25_Witness ==
    /\ cancelledAt = "node"
    /\ run_results.status = "CANCELLED"
    /\ pc = "END"
    /\ executed["finalize"] = 1
    /\ executed["monitor_cicd"] >= 1
    /\ state.final_status # "RUNNING"

\* C30: every node execution makes the message log exactly one entry longer
\* and keeps the earlier messages in place, on the success path and on the
\* failure path.
C30_OneMessagePerNode ==
    [][executed' # executed =>
         /\ Len(state'.messages) = Len(state.messages) + 1
         /\ SubSeq(state'.messages, 1, Len(state.messages)) = state.messages
      ]_vars

\* C31: Finalize gives FAILED only with iteration = maxIterations: entered
\* from RunTests (empty failure list) it gives NO_ISSUES_FOUND or PASSED,
\* entered from MonitorPipeline with iteration < maxIterations it gives
\* PASSED.
C31_FailedOnlyAtBudget ==
    [][(pc = "finalize" /\ executed' # executed) =>
         /\ prev \in {"run_tests", "monitor_cicd"}
         /\ prev = "run_tests" =>
               /\ Len(state.failures) = 0
               /\ state'.final_status \in {"NO_ISSUES_FOUND", "PASSED"}
         /\ (prev = "monitor_cicd"
             /\ state.iteration < state.max_iterations) =>
               state'.final_status = "PASSED"
         /\ state'.final_status = "FAILED" =>
               state.iteration = state.max_iterations
      ]_vars

\* a run that repaired something, was not passed by the pipeline and found
\* no failure in its next detection pass has ended PASSED
C31_Witness ==
    /\ pc = "END"
    /\ state.final_status = "PASSED"
    /\ ~state.all_tests_passed
    /\ state.iteration = 2
    /\ state.total_fixes > 0
    /\ state.failures = <<>>

C34_CommitCountBounded ==
    /\ state.commit_count = executed["commit_fixes"]
    /\ state.commit_count <= state.max_iterations
    /\ pc = "END" =>
          /\ Len(state.score) = 1
          /\ state.score[1].efficiency_penalty = 0
          /\ state.score[1].final_score \in {100, 110}
    /\ Len(run_results.result) = 1 =>
          /\ run_results.result[1].commit_count = state.commit_count
          /\ run_results.result[1].score[1].efficiency_penalty = 0
          /\ run_results.result[1].score[1].final_score \in {100, 110}

C34_Witness ==
    /\ Len(run_results.result) = 1
    /\ run_results.result[1].commit_count = max_iterations
    /\ executed["commit_fixes"] = max_iterations
    /\ run_results.result[1].score[1].final_score = 100

\* the step leaves every field of the run state outside F as it was
OnlyChanges(F) ==
    /\ DOMAIN state' = DOMAIN state
    /\ \A f \in DOMAIN state : f \notin F => state'[f] = state[f]

\* C38: each node changes only its own fields of the run state, and
\* repo_url, team_name, leader_name, branch_name, start_time and
\* max_iterations keep their initial values in every reachable state.
C38_Frame ==
    /\ [][/\ (pc = "run_tests" /\ executed' # executed) =>
              OnlyChanges({"failures", "total_failures", "messages"})
          /\ (pc = "fix_code" /\ executed' # executed) =>
              OnlyChanges({"fixes_applied", "total_fixes", "messages"})
          /\ (pc = "commit_fixes" /\ executed' # executed) =>
              OnlyChanges({"commit_count", "messages"})
          /\ (pc = "monitor_cicd" /\ executed' # executed) =>
              OnlyChanges({"cicd_runs", "iteration", "all_tests_passed",
                           "messages"})
          /\ (pc = "finalize" /\ executed' # executed) =>
              OnlyChanges({"score", "final_status", "messages"})
          /\ executed' = executed => state' = state
         ]_vars
    /\ [](/\ state.repo_url = initial_state.repo_url
          /\ state.team_name = initial_state.team_name
          /\ state.leader_name = initial_state.leader_name
          /\ state.branch_name = initial_state.branch_name
          /\ state.start_time = initial_state.start_time
          /\ state.max_iterations = 5)

C38_Witness ==
    /\ pc = "END"
    /\ \A n \in {"run_tests", "fix_code", "commit_fixes", "monitor_cicd",
                  "finalize"} : executed[n] >= 1
    /\ state.failures # <<>>
    /\ state.branch_name = initial_state.branch_name
    /\ state.max_iterations = 5

\* C36: once the registry status of a run is CANCELLED it stays CANCELLED;
\* the completion or failure of the task does not overwrite it.
C36_CancelledIsStable ==
    [][run_results.status = "CANCELLED" =>
         run_results'.status = "CANCELLED"]_vars

(***************************************************************************)
(* Stand-alone function checks.  The workflow variables stay at their      *)
(* initial values; call holds the arguments and the result of one call.    *)
(***************************************************************************)
IdleWorkflow ==
    /\ state = initial_state
    /\ pc = "none"
    /\ prev = "START"
    /\ run_results = [status |-> "RUNNING", error |-> NoError, result |-> <<>>]
    /\ executed = [n \in Nodes |-> 0]
    /\ everFound = FALSE
    /\ raisedIn = "none"
    /\ verdicts = <<>>
    /\ cancelledAt = "none"

workflow_vars ==
    <<state, pc, prev, run_results, executed, everFound, raisedIn, verdicts,
      cancelledAt>>

(***************************************************************************)
(* TestRunnerAgent._classify_bug_type.  A text is a set of fragments; a    *)
(* fragment is a piece of tool output as it is printed (mixed case).       *)
(***************************************************************************)
BugTypes == {"SYNTAX", "INDENTATION", "IMPORT", "TYPE_ERROR", "LINTING", "LOGIC"}

\* the keyword lists of _classify_bug_type, in the order it tests them
SyntaxKeywords ==
    {"syntaxerror", "syntax error", "unexpected token",
     "unexpected identifier", "parseerror", "missing semicolon",
     "unexpected end of input"}
IndentationKeywords ==
    {"indentationerror", "unexpected indent", "expected an indented block",
     "unindent does not match"}
ImportKeywords ==
    {"modulenotfounderror", "importerror", "cannot find module",
     "no module named", "module not found", "cannot resolve module",
     "require is not defined"}
TypeKeywords ==
    {"typeerror", "type error", "cannot read prop", "is not a function",
     "nonetype", "attributeerror", "undefined is not", "null is not",
     "ts2", "ts1"}
LintingKeywords ==
    {"unused import", "imported but unused", "f401", "unused variable",
     "w0611", "no-unused-vars", "undefined variable", "e0602", "eslint",
     "never used", "is assigned but"}
LogicKeywords ==
    {"assertionerror", "assert", "expected", "received", "tobe", "toequal",
     "failed", "wrong result", "does not match", "mismatch"}

\* fragments of tool output used as inputs
Fragments ==
    {"SyntaxError", "Unexpected token", "IndentationError",
     "expected an indented block", "No module named", "TypeError",
     "F401 imported but unused", "AssertionError", "Expected", "ok"}

\* str.lower() of a fragment
lower(frag) ==
    CASE frag = "SyntaxError" -> "syntaxerror"
      [] frag = "Unexpected token" -> "unexpected token"
      [] frag = "IndentationError" -> "indentationerror"
      [] frag = "expected an indented block" -> "expected an indented block"
      [] frag = "No module named" -> "no module named"
      [] frag = "TypeError" -> "typeerror"
      [] frag = "F401 imported but unused" -> "f401 imported but unused"
      [] frag = "AssertionError" -> "assertionerror"
      [] frag = "Expected" -> "expected"
      [] frag = "ok" -> "ok"

\* the keywords that occur as substrings of a string (Python "in")
substrings(str) ==
    CASE str = "syntaxerror" -> {"syntaxerror"}
      [] str = "unexpected token" -> {"unexpected token"}
      [] str = "indentationerror" -> {"indentationerror"}
      [] str = "expected an indented block" ->
            {"expected an indented block", "expected"}
      [] str = "no module named" -> {"no module named"}
      [] str = "typeerror" -> {"typeerror"}
      [] str = "f401 imported but unused" -> {"f401", "imported but unused"}
      [] str = "assertionerror" -> {"assertionerror", "assert"}
      [] str = "expected" -> {"expected"}
      [] OTHER -> {}

\* any(pattern in error_lower for pattern in keywords)
any_in(keywords, lowered) ==
    \E str \in lowered : substrings(str) \cap keywords # {}

classify_importFirst(text) ==
    LET error_lower == {lower(frag) : frag \in text}
    IN  IF any_in(SyntaxKeywords, error_lower) THEN "SYNTAX"
        ELSE IF any_in(ImportKeywords, error_lower) THEN "IMPORT"
        ELSE IF any_in(IndentationKeywords, error_lower) THEN "INDENTATION"
        ELSE IF any_in(TypeKeywords, error_lower) THEN "TYPE_ERROR"
        ELSE IF any_in(LintingKeywords, error_lower) THEN "LINTING"
        ELSE IF any_in(LogicKeywords, error_lower) THEN "LOGIC"
        ELSE "LOGIC"

_classify_bug_type(text) ==
    LET error_lower == {lower(frag) : frag \in text}
    IN  IF any_in(SyntaxKeywords, error_lower) THEN "SYNTAX"
        ELSE IF any_in(IndentationKeywords, error_lower) THEN "INDENTATION"
        ELSE IF any_in(ImportKeywords, error_lower) THEN "IMPORT"
        ELSE IF any_in(TypeKeywords, error_lower) THEN "TYPE_ERROR"
        ELSE IF any_in(LintingKeywords, error_lower) THEN "LINTING"
        ELSE IF any_in(LogicKeywords, error_lower) THEN "LOGIC"
        ELSE "LOGIC"

InitClassify ==
    /\ IdleWorkflow
    /\ \E text \in SUBSET Fragments :
          call = [fn |-> "classify", text |-> text, result |-> "pending"]

Classify ==
    /\ call.fn = "classify"
    /\ call.result = "pending"
    /\ call' = [call EXCEPT !.result = _classify_bug_type(call.text)]
    /\ UNCHANGED workflow_vars

NextClassify ==
    \/ Classify

SpecClassify == InitClassify /\ [][NextClassify]_vars

\* rank of a bug type in SYNTAX > INDENTATION > IMPORT > TYPE_ERROR >
\* LINTING > LOGIC (1 is the highest priority)
PriorityRank(b) ==
    CASE b = "SYNTAX" -> 1
      [] b = "INDENTATION" -> 2
      [] b = "IMPORT" -> 3
      [] b = "TYPE_ERROR" -> 4
      [] b = "LINTING" -> 5
      [] b = "LOGIC" -> 6

\* the bug types with a keyword in the lower-cased text
MatchingTypes(text) ==
    LET low == {lower(frag) : frag \in text}
        kw(b) == CASE b = "SYNTAX" -> SyntaxKeywords
                   [] b = "INDENTATION" -> IndentationKeywords
                   [] b = "IMPORT" -> ImportKeywords
                   [] b = "TYPE_ERROR" -> TypeKeywords
                   [] b = "LINTING" -> LintingKeywords
                   [] b = "LOGIC" -> LogicKeywords
    IN  {b \in BugTypes : \E str \in low : \E k \in kw(b) : k \in substrings(str)}

\* C16: classify returns the matching bug type of highest priority, LOGIC
\* when nothing matches; a text with a syntax-error marker and an
\* assertion-error marker is SYNTAX.
C16_ClassifyPriority ==
    (call.fn = "classify" /\ call.result # "pending") =>
      /\ call.result \in BugTypes
      /\ MatchingTypes(call.text) = {} => call.result = "LOGIC"
      /\ MatchingTypes(call.text) # {} =>
            /\ call.result \in MatchingTypes(call.text)
            /\ \A b \in MatchingTypes(call.text) :
                  PriorityRank(call.result) <= PriorityRank(b)
      /\ ({"SyntaxError", "AssertionError"} \subseteq call.text) =>
            call.result = "SYNTAX"

C16_Witness ==
    /\ call.fn = "classify"
    /\ call.text = {"IndentationError", "No module named", "AssertionError"}
    /\ call.result = "INDENTATION"

(***************************************************************************)
(* create_branch_name (orchestrator.py) and the name check of              *)
(* GitAgent.create_branch.  A string is a sequence of characters.          *)
(***************************************************************************)
\* longest team or leader name drawn as input
MaxNameLen == 2

\* characters of the drawn names: a letter, a digit, an underscore, a
\* space, a character the regular expression strips, and a character whose
\* upper case is two letters
NameChars == {"a", "7", "_", " ", "-", "ß"}

UpperLetters ==
    {"A", "B", "C", "D", "E", "F", "G", "H", "I", "J", "K", "L", "M",
     "N", "O", "P", "Q", "R", "S", "T", "U", "V", "W", "X", "Y", "Z"}
Digits == {"0", "1", "2", "3", "4", "5", "6", "7", "8", "9"}

\* the character class [A-Z0-9_]
BranchChars == UpperLetters \cup Digits \cup {"_"}

\* str.upper() of one character
upper_char(c) ==
    CASE c = "a" -> <<"A">>
      [] c = "d" -> <<"D">>
      [] c = "e" -> <<"E">>
      [] c = "j" -> <<"J">>
      [] c = "m" -> <<"M">>
      [] c = "n" -> <<"N">>
      [] c = "o" -> <<"O">>
      [] c = "ß" -> <<"S", "S">>
      [] OTHER -> <<c>>

RECURSIVE upper(_)
upper(str) ==
    IF str = <<>> THEN <<>> ELSE upper_char(Head(str)) \o upper(Tail(str))

\* str.replace(" ", "_")
replace_spaces(str) ==
    [i \in 1..Len(str) |-> IF str[i] = " " THEN "_" ELSE str[i]]

IsBranchChar(c) == c \in BranchChars

\* re.sub(r'[^A-Z0-9_]', '', str)
strip_special(str) == SelectSeq(str, IsBranchChar)

AI_Fix == <<"_", "A", "I", "_", "F", "i", "x">>

create_branch_name_stripFirst(team_name, leader_name) ==
    LET team == replace_spaces(strip_special(upper(team_name)))
        leader == replace_spaces(strip_special(upper(leader_name)))
    IN  team \o <<"_">> \o leader \o AI_Fix

create_branch_name(team_name, leader_name) ==
    LET team == strip_special(replace_spaces(upper(team_name)))
        leader == strip_special(replace_spaces(upper(leader_name)))
    IN  team \o <<"_">> \o leader \o AI_Fix

\* the line feed character
LF == "\n"

\* str matches [A-Z0-9_]+_AI_Fix from its first to its last character
full_match(str) ==
    \E k \in 1..Len(str) :
        /\ \A i \in 1..k : str[i] \in BranchChars
        /\ SubSeq(str, k + 1, Len(str)) = AI_Fix

\* re.match(r'^[A-Z0-9_]+_AI_Fix$', branch_name): without re.MULTILINE the
\* $ of Python matches at the end of the string and also just before a
\* line feed that ends the string
_validate_branch_name(branch_name) ==
    \/ full_match(branch_name)
    \/ /\ Len(branch_name) >= 1
       /\ branch_name[Len(branch_name)] = LF
       /\ full_match(SubSeq(branch_name, 1, Len(branch_name) - 1))

\* git refuses a branch name that holds a control character
git_accepts_ref(branch_name) ==
    \A i \in 1..Len(branch_name) : branch_name[i] # LF

RECURSIVE SeqsUpTo(_, _)
SeqsUpTo(S, n) ==
    IF n = 0 THEN {<<>>}
    ELSE LET shorter == SeqsUpTo(S, n - 1)
         IN  shorter \cup {Append(q, c) : q \in shorter, c \in S}

TeamOne == <<"T", "e", "a", "m", " ", "O", "n", "e">>
JaneDoe == <<"j", "a", "n", "e", " ", "d", "o", "e">>

Names == SeqsUpTo(NameChars, MaxNameLen) \cup {TeamOne, JaneDoe}

\* branch names passed to GitAgent.create_branch by a caller other than
\* run(): with and without the suffix, with and without a final line feed
DirectBranchNames ==
    LET short == SeqsUpTo(NameChars, MaxNameLen)
        named == short \cup {n \o AI_Fix : n \in short}
    IN  named \cup {Append(n, LF) : n \in named}

InitBranch ==
    /\ IdleWorkflow
    /\ \/ \E team \in Names, leader \in Names :
             call = [fn |-> "create_branch_name", origin |-> "run",
                     team_name |-> team, leader_name |-> leader,
                     branch_name |-> <<>>, outcome |-> "pending",
                     git |-> <<>>, head |-> <<"m", "a", "i", "n">>]
       \/ \E name \in DirectBranchNames :
             call = [fn |-> "create_branch", origin |-> "direct",
                     team_name |-> <<>>, leader_name |-> <<>>,
                     branch_name |-> name, outcome |-> "pending",
                     git |-> <<>>, head |-> <<"m", "a", "i", "n">>]

\* run() derives the branch name
CreateBranchName ==
    /\ call.fn = "create_branch_name"
    /\ call' = [call EXCEPT
                   !.fn = "create_branch",
                   !.branch_name = create_branch_name(call.team_name,
                                                      call.leader_name)]
    /\ UNCHANGED workflow_vars

\* create_branch checks the name before any git command; for a name that
\* passes it fetches, checks out the base branch and runs checkout -b,
\* which raises when git refuses the name
CreateBranchAccept ==
    /\ call.fn = "create_branch"
    /\ call.outcome = "pending"
    /\ _validate_branch_name(call.branch_name)
    /\ call' = [call EXCEPT
                   !.outcome = IF git_accepts_ref(call.branch_name)
                               THEN "accepted" ELSE "Exception",
                   !.git = <<"fetch", "checkout", "checkout -b">>,
                   !.head = IF git_accepts_ref(call.branch_name)
                            THEN call.branch_name ELSE @]
    /\ UNCHANGED workflow_vars

CreateBranchReject ==
    /\ call.fn = "create_branch"
    /\ call.outcome = "pending"
    /\ ~_validate_branch_name(call.branch_name)
    /\ call' = [call EXCEPT !.outcome = "ValueError"]
    /\ UNCHANGED workflow_vars

NextBranch ==
    \/ CreateBranchName
    \/ CreateBranchAccept
    \/ CreateBranchReject

SpecBranch == InitBranch /\ [][NextBranch]_vars

\* what the naming rule gives for one character of a name
RECURSIVE ExpectedPart(_)
ExpectedPart(name) ==
    IF name = <<>> THEN <<>>
    ELSE LET c == Head(name)
             mapped == IF c = " " THEN <<"_">>
                       ELSE SelectSeq(upper_char(c), IsBranchChar)
         IN  mapped \o ExpectedPart(Tail(name))

\* C20: for every team and leader name the branch name is the upper-cased
\* names with spaces turned into underscores and other characters outside
\* [A-Z0-9_] removed, joined as TEAM_LEADER_AI_Fix; it matches
\* ^[A-Z0-9_]+_AI_Fix$ and branch creation accepts it.
C20_BranchNameValid ==
    (call.fn = "create_branch" /\ call.origin = "run") =>
      /\ call.branch_name =
            ExpectedPart(call.team_name) \o <<"_">>
               \o ExpectedPart(call.leader_name) \o AI_Fix
      /\ call.outcome # "ValueError"
      /\ (call.team_name = TeamOne /\ call.leader_name = JaneDoe) =>
            call.branch_name =
               <<"T", "E", "A", "M", "_", "O", "N", "E", "_",
                 "J", "A", "N", "E", "_", "D", "O", "E",
                 "_", "A", "I", "_", "F", "i", "x">>

C20_Witness ==
    /\ call.fn = "create_branch"
    /\ call.origin = "run"
    /\ call.team_name = <<>>
    /\ call.leader_name = <<"-", "ß">>
    /\ call.branch_name = <<"_", "S", "S", "_", "A", "I", "_", "F", "i", "x">>
    /\ call.outcome = "accepted"

\* C21: create_branch rejects every branch name that is not of the form
\* [A-Z0-9_]+_AI_Fix with an error before branch creation: no git command
\* runs for such a name and the repository keeps its checked-out branch.
C21_InvalidNameRejectedBeforeGit ==
    (/\ call.fn = "create_branch"
     /\ call.outcome # "pending"
     /\ ~full_match(call.branch_name)) =>
        /\ call.outcome = "ValueError"
        /\ call.git = <<>>
        /\ call.head = <<"m", "a", "i", "n">>

(***************************************************************************)
(* TestRunnerAgent.run_all_tests.  The tools (pytest, jest, flake8,        *)
(* eslint) are external: each one's output is an input of the call.  A     *)
(* description is modelled by the adapter that wrote it and its length.    *)
(***************************************************************************)
\* lengths of the raw texts the tools print, on both sides of 200
LenSamples == {40, 250}

\* files a cloned repository may hold
RepoFiles == {"a.py", "test_a.py", "a.test.js"}

is_py(f) == f \in {"a.py", "test_a.py"}
is_js(f) == f \in {"a.test.js"}
\* test_file.endswith(('.test.js', '.spec.js'))
is_jest_test(f) == f \in {"a.test.js"}
\* the TEST_PATTERNS of RepoAnalyzerAgent
is_test(f) == f \in {"test_a.py", "a.test.js"}

\* the files of a repository as _discover_all_source_files lists them
all_source_files(repo) ==
    SelectSeq(<<"a.py", "a.test.js", "test_a.py">>, LAMBDA f : f \in repo)

Min(a, b) == IF a <= b THEN a ELSE b

Failure(file, line, bug_type, by, len) ==
    [file |-> file, line |-> line, bug_type |-> bug_type,
     description |-> [by |-> by, len |-> len], status |-> "pending"]

\* texts of failing tests
FailureTexts == {{"AssertionError"}, {"SyntaxError", "AssertionError"}}

\* what running pytest can give: the subprocess raises, the output holds
\* nothing the parser recognises, a FAILED line, or a collection error
PytestOutputs(repo) ==
    {[kind |-> "exception"], [kind |-> "no_findings"]}
    \cup {[kind |-> "FAILED", text |-> t, line_match |-> l, len |-> n] :
             t \in IF "test_a.py" \in repo THEN FailureTexts ELSE {},
             l \in {0, 2}, n \in LenSamples}
    \cup {[kind |-> "collect", error |-> e, line |-> l, len |-> n] :
             e \in IF "a.py" \in repo
                   THEN {"SyntaxError", "IndentationError"} ELSE {},
             l \in {1, 2}, n \in LenSamples}

\* what running jest can give: time-out, every command raises, npm fails
\* (non-zero exit, empty stdout, 'npm error' on stderr), JSON output with or
\* without a failed assertion, text output with a failed test
JestOutputs(repo) ==
    {[kind |-> "timeout"], [kind |-> "exception"], [kind |-> "npm_error"],
     [kind |-> "json_none"]}
    \cup {[kind |-> "json", text |-> t, len |-> n, title_len |-> 40] :
             t \in IF "a.test.js" \in repo THEN FailureTexts ELSE {},
             n \in LenSamples}
    \cup {[kind |-> "json", text |-> {}, len |-> 0, title_len |-> n] :
             n \in IF "a.test.js" \in repo THEN LenSamples ELSE {}}
    \cup {[kind |-> "text", text |-> {"Expected"}, len |-> n] :
             n \in IF "a.test.js" \in repo THEN LenSamples ELSE {}}

Flake8Codes == {"E999", "F401", "W291"}

Flake8Outputs(repo) ==
    {[kind |-> "exception"], [kind |-> "no_findings"]}
    \cup {[kind |-> "finding", code |-> c, line |-> 1, len |-> n] :
             c \in IF "a.py" \in repo THEN Flake8Codes ELSE {},
             n \in LenSamples}

EslintOutputs ==
    {[kind |-> "exception"], [kind |-> "malformed"], [kind |-> "no_findings"]}
    \cup {[kind |-> "finding", line |-> 1, len |-> n] : n \in LenSamples}

\* what the pattern scan finds in a.py
ScanOutputs(repo) ==
    {[kind |-> "no_findings"]}
    \cup {[kind |-> "finding", bug_type |-> b] :
             b \in IF "a.py" \in repo THEN {"SYNTAX", "LOGIC"} ELSE {}}

NotRun == [kind |-> "not_run"]

_extract_failure_details(file_path, out) ==
    Failure(file_path,
            IF out.line_match # 0 THEN out.line_match ELSE 1,
            _classify_bug_type(out.text),
            "pytest",
            Min(out.len, 200))

\* _run_pytest with _parse_pytest_output
_run_pytest(out) ==
    IF out.kind = "FAILED"
    THEN <<_extract_failure_details("test_a.py", out)>>
    ELSE IF out.kind = "collect"
    THEN <<Failure("a.py", out.line,
                   IF out.error = "SyntaxError" THEN "SYNTAX"
                                                ELSE "INDENTATION",
                   "pytest", out.len)>>
    ELSE <<>>

placeholder(test_file) ==
    Failure(test_file, 1, "LOGIC", "jest", 55)

RECURSIVE placeholders(_)
placeholders(test_files) ==
    IF test_files = <<>> THEN <<>>
    ELSE (IF is_jest_test(Head(test_files))
          THEN <<placeholder(Head(test_files))>> ELSE <<>>)
         \o placeholders(Tail(test_files))

\* _run_jest with the JSON and the text parser
_run_jest(out, test_files) ==
    IF out.kind = "npm_error" THEN placeholders(test_files)
    ELSE IF out.kind = "json"
    THEN <<Failure("a.test.js", 1, _classify_bug_type(out.text), "jest",
                   IF out.len > 0 THEN Min(out.len, 200)
                                  ELSE out.title_len)>>
    ELSE IF out.kind = "text"
    THEN <<Failure("a.test.js", 1, _classify_bug_type(out.text), "jest",
                   Min(out.len, 200))>>
    ELSE <<>>

\* the rule-code mapping of _run_flake8
flake8_bug_type(code) ==
    IF code \in {"W291"} THEN "LINTING"
    ELSE IF code \in {"E999"} THEN "SYNTAX"
    ELSE IF code \in {"F401"} THEN "IMPORT"
    ELSE "LINTING"

\* the description is "<code>: <text>", four characters of code
_run_flake8(out) ==
    IF out.kind = "finding"
    THEN <<Failure("a.py", out.line, flake8_bug_type(out.code), "flake8",
                   4 + 2 + out.len)>>
    ELSE <<>>

_run_eslint(out) ==
    IF out.kind = "finding"
    THEN <<Failure("a.test.js", out.line, "LINTING", "eslint", out.len)>>
    ELSE <<>>

_run_linting(c) ==
    LET py_files == SelectSeq(all_source_files(c.repo), is_py)
        js_files == SelectSeq(all_source_files(c.repo), is_js)
    IN  (IF py_files # <<>> THEN _run_flake8(c.flake8) ELSE <<>>)
        \o (IF js_files # <<>> THEN _run_eslint(c.eslint) ELSE <<>>)

\* "Missing colon at end of line: " and at most 50 characters, or one of
\* the fixed operator messages
_run_static_analysis(out) ==
    IF out.kind = "finding"
    THEN <<Failure("a.py", 1, out.bug_type, "scan",
                   IF out.bug_type = "SYNTAX" THEN 80 ELSE 62)>>
    ELSE <<>>

failure_key(f) == <<f.file, f.line, f.bug_type>>

add_unique_lastWins(unique, f) ==
    LET seen == {failure_key(unique[j]) : j \in 1..Len(unique)}
    IN  IF failure_key(f) \notin seen
        THEN Append(unique, f)
        ELSE [j \in 1..Len(unique) |->
                 IF failure_key(unique[j]) = failure_key(f) THEN f
                                                            ELSE unique[j]]

\* one turn of the loop of run_all_tests over all_failures: the record is
\* appended when its key is not in the seen set
add_unique(unique, f) ==
    LET seen == {failure_key(unique[j]) : j \in 1..Len(unique)}
    IN  IF failure_key(f) \notin seen THEN Append(unique, f) ELSE unique

\* the loop of run_all_tests over all_failures
RECURSIVE deduplicate(_, _)
deduplicate(all_failures, unique) ==
    IF all_failures = <<>> THEN unique
    ELSE deduplicate(Tail(all_failures),
                     add_unique(unique, Head(all_failures)))

\* all_failures of run_all_tests before deduplication
all_failures_of(c) ==
    LET test_files == SelectSeq(all_source_files(c.repo), is_test)
        py_tests == SelectSeq(test_files, is_py)
        js_tests == SelectSeq(test_files, is_js)
        tests ==
            IF c.framework = "pytest" THEN _run_pytest(c.pytest)
            ELSE IF c.framework = "jest" THEN _run_jest(c.jest, test_files)
            ELSE (IF py_tests # <<>> THEN _run_pytest(c.pytest) ELSE <<>>)
                 \o (IF js_tests # <<>> THEN _run_jest(c.jest, js_tests)
                                        ELSE <<>>)
    IN  tests \o _run_linting(c) \o _run_static_analysis(c.scan)

run_all_tests(c) == deduplicate(all_failures_of(c), <<>>)

\* the tools one call runs
RunsPytest(framework, repo) ==
    framework = "pytest" \/ (framework = "auto" /\ "test_a.py" \in repo)
RunsJest(framework, repo) ==
    framework = "jest" \/ (framework = "auto" /\ "a.test.js" \in repo)

InitDetect ==
    /\ IdleWorkflow
    /\ \E framework \in {"pytest", "jest", "auto"}, repo \in SUBSET RepoFiles :
       \E py \in IF RunsPytest(framework, repo) THEN PytestOutputs(repo)
                                                ELSE {NotRun},
          js \in IF RunsJest(framework, repo) THEN JestOutputs(repo)
                                              ELSE {NotRun},
          f8 \in IF SelectSeq(all_source_files(repo), is_py) # <<>>
                 THEN Flake8Outputs(repo) ELSE {NotRun},
          es \in IF SelectSeq(all_source_files(repo), is_js) # <<>>
                 THEN EslintOutputs ELSE {NotRun},
          sc \in ScanOutputs(repo) :
          call = [fn |-> "run_all_tests", framework |-> framework,
                  repo |-> repo, pytest |-> py, jest |-> js, flake8 |-> f8,
                  eslint |-> es, scan |-> sc, returned |-> FALSE,
                  result |-> <<>>]

RunAllTests ==
    /\ call.fn = "run_all_tests"
    /\ ~call.returned
    /\ call' = [call EXCEPT !.returned = TRUE, !.result = run_all_tests(call)]
    /\ UNCHANGED workflow_vars

NextDetect ==
    \/ RunAllTests

SpecDetect == InitDetect /\ [][NextDetect]_vars

\* the first position of a key in a list of records
FirstIndex(records, k) ==
    CHOOSE i \in 1..Len(records) :
        /\ failure_key(records[i]) = k
        /\ \A j \in 1..(i - 1) : failure_key(records[j]) # k

\* C15: the list one detection pass returns holds no two records with the
\* same (file, line, bug_type); for every key among the merged raw records
\* (test records, then linter records, then scan records) exactly the
\* first-seen record is kept, with its description, and the kept records
\* stand in the order in which they were first seen.
C15_DedupFirstSeen ==
    (call.fn = "run_all_tests" /\ call.returned) =>
        LET raw == all_failures_of(call)
            res == call.result
        IN  /\ \A i, j \in 1..Len(res) :
                   i # j => failure_key(res[i]) # failure_key(res[j])
            /\ \A i \in 1..Len(raw) :
                   \E j \in 1..Len(res) :
                       res[j] = raw[FirstIndex(raw, failure_key(raw[i]))]
            /\ \A j \in 1..Len(res) :
                   \E i \in 1..Len(raw) :
                       failure_key(raw[i]) = failure_key(res[j])
            /\ \A i, j \in 1..Len(res) :
                   i < j => FirstIndex(raw, failure_key(res[i]))
                              < FirstIndex(raw, failure_key(res[j]))

\* a pass has returned in which two tools reported the same key with
\* different descriptions and another record follows the duplicate
C15_Witness ==
    /\ call.fn = "run_all_tests"
    /\ call.returned
    /\ LET raw == all_failures_of(call)
       IN  /\ \E i, j \in 1..Len(raw) :
                  /\ i < j
                  /\ failure_key(raw[i]) = failure_key(raw[j])
                  /\ raw[i].description # raw[j].description
                  /\ j < Len(raw)
           /\ Len(call.result) = Len(raw) - 1
           /\ Len(call.result) >= 2

\* the outputs of a tool that could not execute
CannotExecute ==
    [pytest |-> {"exception"},
     jest   |-> {"timeout", "exception", "npm_error"},
     flake8 |-> {"exception"},
     eslint |-> {"exception", "malformed"}]

\* C17: a tool that cannot execute (missing runtime, time-out, non-zero
\* exit without usable output, malformed output) contributes no record to
\* the list the detection pass returns.
C17_FailedToolContributesNothing ==
    (call.fn = "run_all_tests" /\ call.returned) =>
        \A tool \in DOMAIN CannotExecute :
            call[tool].kind \in CannotExecute[tool] =>
                \A i \in 1..Len(call.result) :
                    call.result[i].description.by # tool

\* C18: every record a detection pass returns has a description of at most
\* 200 characters, whichever adapter produced it.
C18_DescriptionAtMost200 ==
    (call.fn = "run_all_tests" /\ call.returned) =>
        \A i \in 1..Len(call.result) :
            call.result[i].description.len <= 200

(***************************************************************************)
(* CICDMonitorAgent.check_pipeline.  The answers of the GitHub API are     *)
(* inputs, drawn at each poll; time is counted in seconds since the loop   *)
(* started.                                                                *)
(***************************************************************************)
\* seconds the polling loop may last
max_wait == 30
\* CICD_POLL_INTERVAL
poll_interval == 10
\* seconds one request may take
Latencies == {0, 15}

\* what one GET of the workflow runs can give
PollAnswers ==
    {[kind |-> "exception"], [kind |-> "http_error"], [kind |-> "no_runs"]}
    \cup {[kind |-> "run", status |-> st, conclusion |-> "null"] :
             st \in {"queued", "in_progress", "waiting"}}
    \cup {[kind |-> "run", status |-> "completed", conclusion |-> c] :
             c \in {"success", "failure", "cancelled", "null"}}

\* re.match(r'https?://github\.com/([^/]+)/([^/\.]+)', repo_url)
RepoUrls == {"https://github.com/o/r", "https://gitlab.com/o/r",
             "https://github.com/o"}
github_match(repo_url) == repo_url = "https://github.com/o/r"

_local_verification == [status |-> "completed"]

run_status_lenient(conclusion) ==
    [status |-> IF conclusion # "failure" THEN "passed" ELSE "failed"]

\* the record returned for a completed workflow run
run_status(conclusion) ==
    [status |-> IF conclusion = "success" THEN "passed" ELSE "failed"]

InitPipeline ==
    /\ IdleWorkflow
    /\ \E url \in RepoUrls, token \in BOOLEAN :
          call = [fn |-> "check_pipeline", repo_url |-> url,
                  github_token |-> token, at |-> "start", elapsed |-> 0,
                  answers |-> <<>>, result |-> [status |-> "pending"]]

\* check_pipeline without a token or for another host
CheckPipelineLocal ==
    /\ call.fn = "check_pipeline"
    /\ call.at = "start"
    /\ ~(github_match(call.repo_url) /\ call.github_token)
    /\ call' = [call EXCEPT !.at = "returned",
                            !.result = _local_verification]
    /\ UNCHANGED workflow_vars

\* check_pipeline enters _check_github_actions
CheckGithubActions ==
    /\ call.fn = "check_pipeline"
    /\ call.at = "start"
    /\ github_match(call.repo_url) /\ call.github_token
    /\ call' = [call EXCEPT !.at = "loop"]
    /\ UNCHANGED workflow_vars

\* one turn of the polling loop
Poll ==
    /\ call.fn = "check_pipeline"
    /\ call.at = "loop"
    /\ call.elapsed < max_wait
    /\ \E answer \in PollAnswers, latency \in Latencies :
          call' =
            IF answer.kind = "exception"
            THEN [call EXCEPT !.at = "returned",
                              !.answers = Append(@, answer),
                              !.elapsed = @ + latency,
                              !.result = _local_verification]
            ELSE IF answer.kind = "run" /\ answer.status = "completed"
            THEN [call EXCEPT !.at = "returned",
                              !.answers = Append(@, answer),
                              !.elapsed = @ + latency,
                              !.result = run_status(answer.conclusion)]
            ELSE [call EXCEPT !.answers = Append(@, answer),
                              !.elapsed = @ + latency + poll_interval]
    /\ UNCHANGED workflow_vars

\* the loop ends after max_wait seconds
PollTimeout ==
    /\ call.fn = "check_pipeline"
    /\ call.at = "loop"
    /\ call.elapsed >= max_wait
    /\ call' = [call EXCEPT !.at = "returned",
                            !.result = _local_verification]
    /\ UNCHANGED workflow_vars

NextPipeline ==
    \/ CheckPipelineLocal
    \/ CheckGithubActions
    \/ Poll
    \/ PollTimeout

SpecPipeline == InitPipeline /\ [][NextPipeline]_vars

\* the last answer of the API a call has seen, if any
LastAnswer ==
    IF call.answers = <<>> THEN [kind |-> "none"]
    ELSE call.answers[Len(call.answers)]

\* C27: check_pipeline returns passed, failed or completed: passed only for
\* a completed workflow run with conclusion success, failed only for a
\* completed run with another conclusion; a poll that times out, hits an
\* error or finds no run gives completed, and so does every call without a
\* token or for a URL that is not a GitHub repository.
C27_PipelineStatus ==
    (call.fn = "check_pipeline" /\ call.at = "returned") =>
        LET last == LastAnswer
            done == last.kind = "run" /\ last.status = "completed"
        IN  /\ call.result.status \in {"passed", "failed", "completed"}
            /\ call.result.status = "passed" <=>
                   (done /\ last.conclusion = "success")
            /\ call.result.status = "failed" <=>
                   (done /\ last.conclusion # "success")
            /\ (~call.github_token \/ ~github_match(call.repo_url)) =>
                   (call.result.status = "completed" /\ call.answers = <<>>)
            /\ \A i \in 1..(Len(call.answers) - 1) :
                   ~(call.answers[i].kind = "run"
                     /\ call.answers[i].status = "completed")

\* a call that waited through a queued run and then saw it cancelled
C27_Witness ==
    /\ call.fn = "check_pipeline"
    /\ call.at = "returned"
    /\ Len(call.answers) = 2
    /\ call.answers[1].kind = "run"
    /\ call.answers[1].status = "queued"
    /\ call.answers[2].kind = "run"
    /\ call.answers[2].conclusion = "cancelled"
    /\ call.result.status = "failed"

(***************************************************************************)
(* CodeFixerAgent.fix_failures.  What the file system and the provider do  *)
(* for each file is an input of the call.                                  *)
(***************************************************************************)
\* largest number of failures handed to one repair call
MaxRepairInput == 2

RepairFiles == {"a.py", "a.test.js"}

\* a failure to repair; simple says that one of the patterns of
\* _try_simple_fixes applies to its description and to the file content
RepairFailures ==
    [file : RepairFiles, line : {1, 2}, simple : BOOLEAN]

\* what happens to one file: it is missing, cannot be read, cannot be
\* written, the provider raises, or the provider answers with changed or
\* unchanged content
FileOutcomes ==
    {"missing", "unreadable", "write_error", "provider_exception",
     "changed", "unchanged"}

\* the file fix_failures hands to _fix_file for the failures of a file
fix_target(c, file_path) ==
    IF is_jest_test(file_path) /\ c.source_exists THEN "a.js" ELSE file_path

Fix(rel_path, failure, status) ==
    [file |-> rel_path, line |-> failure.line, status |-> status]

IsSimple(failure) == failure.simple

\* _try_simple_fixes: one record per failure a pattern applies to, naming
\* the file of the failure
_try_simple_fixes(failures) ==
    LET matched == SelectSeq(failures, IsSimple)
    IN  [i \in 1..Len(matched) |-> Fix(matched[i].file, matched[i], "fixed")]

_fix_file(c, rel_path, failures) ==
    LET outcome == c.outcome[rel_path]
        simple_fixes == _try_simple_fixes(failures)
        all(status) ==
            [i \in 1..Len(failures) |-> Fix(rel_path, failures[i], status)]
    IN  IF outcome \in {"missing", "unreadable"} THEN <<>>
        ELSE IF simple_fixes # <<>>
        THEN (IF outcome = "write_error" THEN <<>> ELSE simple_fixes)
        ELSE IF c.provider = "none" THEN <<>>
        ELSE IF outcome = "provider_exception" THEN all("failed")
        ELSE IF outcome = "unchanged" THEN <<>>
        ELSE IF outcome = "write_error" THEN all("failed")
        ELSE all("fixed")

\* the files of the failures in the order of their first appearance
RECURSIVE files_to_fix(_, _)
files_to_fix(failures, files) ==
    IF failures = <<>> THEN files
    ELSE files_to_fix(Tail(failures),
            IF \E i \in 1..Len(files) : files[i] = Head(failures).file
            THEN files ELSE Append(files, Head(failures).file))

RECURSIVE fix_each(_, _)
fix_each(c, files) ==
    IF files = <<>> THEN <<>>
    ELSE LET file_path == Head(files)
             file_failures ==
                 SelectSeq(c.failures, LAMBDA f : f.file = file_path)
         IN  _fix_file(c, fix_target(c, file_path), file_failures)
             \o fix_each(c, Tail(files))

fix_failures(c) == fix_each(c, files_to_fix(c.failures, <<>>))

InitRepair ==
    /\ IdleWorkflow
    /\ \E failures \in SeqsUpTo(RepairFailures, MaxRepairInput),
          outcome \in [RepairFiles \cup {"a.js"} -> FileOutcomes],
          provider \in {"none", "groq"}, source_exists \in BOOLEAN :
          /\ outcome["a.js"] = "missing" <=> ~source_exists
          /\ call = [fn |-> "fix_failures", failures |-> failures,
                     outcome |-> outcome, provider |-> provider,
                     source_exists |-> source_exists, returned |-> FALSE,
                     result |-> <<>>]

FixFailures ==
    /\ call.fn = "fix_failures"
    /\ ~call.returned
    /\ call' = [call EXCEPT !.returned = TRUE, !.result = fix_failures(call)]
    /\ UNCHANGED workflow_vars

NextRepair ==
    \/ FixFailures

SpecRepair == InitRepair /\ [][NextRepair]_vars

\* the repair of the failure did not succeed for one of the reasons a
\* repair can fail
RepairFailed(c, failure) ==
    LET outcome == c.outcome[fix_target(c, failure.file)]
        simple_path ==
            \E i \in 1..Len(c.failures) :
                c.failures[i].file = failure.file /\ c.failures[i].simple
    IN  \/ outcome \in {"missing", "unreadable", "write_error"}
        \/ ~simple_path /\ c.provider = "none"
        \/ ~simple_path /\ outcome = "provider_exception"

\* C28: a repair failure is per failure: fix_failures returns, and every
\* failure whose repair failed (file missing or unreadable, write error,
\* provider exception, no provider) has a fix record with status failed.
C28_FailedRepairIsRecorded ==
    (call.fn = "fix_failures" /\ call.returned) =>
        \A i \in 1..Len(call.failures) :
            RepairFailed(call, call.failures[i]) =>
                \E j \in 1..Len(call.result) :
                    /\ call.result[j].line = call.failures[i].line
                    /\ call.result[j].file =
                           fix_target(call, call.failures[i].file)
                    /\ call.result[j].status = "failed"

(***************************************************************************)
(* GitAgent.commit_and_push, one git command per step.  The working tree   *)
(* and the branch are the state of the repository.                         *)
(***************************************************************************)
\* largest number of commits the branch holds before the call
MaxCommits == 2

TreeFiles == {"a.py", "b.py"}

\* message.startswith("[AI-AGENT]") or the prefix is put in front
with_prefix(message) == [message EXCEPT !.prefixed = TRUE]

InitCommit ==
    /\ IdleWorkflow
    /\ \E changed \in SUBSET TreeFiles, prefixed \in BOOLEAN,
          n \in 0..MaxCommits, m \in 0..MaxCommits :
          /\ m <= n
          /\ call = [fn |-> "commit_and_push", at |-> "add",
                     message |-> [prefixed |-> prefixed, text |-> "Fix"],
                     changed |-> changed, staged |-> {},
                     local |-> n, remote |-> m,
                     before |-> [local |-> n, remote |-> m],
                     git |-> <<>>, outcome |-> "pending",
                     commit_count |-> 0]

\* git add -A
GitAdd ==
    /\ call.fn = "commit_and_push"
    /\ call.at = "add"
    /\ call' = [call EXCEPT !.message = with_prefix(@),
                            !.staged = call.changed,
                            !.git = Append(@, "add"),
                            !.at = "status"]
    /\ UNCHANGED workflow_vars

GitStatus_alwaysCommit ==
    /\ call.fn = "commit_and_push"
    /\ call.at = "status"
    /\ call' = [call EXCEPT !.git = Append(@, "status"), !.at = "commit"]
    /\ UNCHANGED workflow_vars

\* git status --porcelain and the return when it prints nothing
GitStatus ==
    /\ call.fn = "commit_and_push"
    /\ call.at = "status"
    /\ call' = IF call.staged = {}
               THEN [call EXCEPT !.git = Append(@, "status"),
                                 !.at = "returned",
                                 !.outcome = "no_changes"]
               ELSE [call EXCEPT !.git = Append(@, "status"),
                                 !.at = "commit"]
    /\ UNCHANGED workflow_vars

\* git commit -m message
GitCommit ==
    /\ call.fn = "commit_and_push"
    /\ call.at = "commit"
    /\ call' = [call EXCEPT !.git = Append(@, "commit"),
                            !.local = @ + 1,
                            !.staged = {},
                            !.at = "push"]
    /\ UNCHANGED workflow_vars

\* git push -u origin branch --force
GitPush ==
    /\ call.fn = "commit_and_push"
    /\ call.at = "push"
    /\ call' = [call EXCEPT !.git = Append(@, "push"),
                            !.remote = call.local,
                            !.at = "returned",
                            !.outcome = "pushed"]
    /\ UNCHANGED workflow_vars

\* _run_git raises when the command exits with a non-zero code
GitFail ==
    /\ call.fn = "commit_and_push"
    /\ call.at \in {"add", "status", "commit", "push"}
    /\ call' = [call EXCEPT !.git = Append(@, call.at),
                            !.at = "returned",
                            !.outcome = "Exception"]
    /\ UNCHANGED workflow_vars

\* _commit_fixes after commit_and_push has returned without raising
CommitFixesReturn ==
    /\ call.fn = "commit_and_push"
    /\ call.at = "returned"
    /\ call.outcome # "Exception"
    /\ call' = [call EXCEPT !.commit_count = @ + 1, !.at = "node_done"]
    /\ UNCHANGED workflow_vars

NextCommit ==
    \/ GitAdd
    \/ GitStatus
    \/ GitCommit
    \/ GitPush
    \/ GitFail
    \/ CommitFixesReturn

SpecCommit == InitCommit /\ [][NextCommit]_vars

\* C29: with nothing to commit after staging, commit_and_push creates no
\* commit, pushes nothing and returns normally; otherwise it commits and
\* then pushes, in that order.
C29_CommitAndPush ==
    (call.fn = "commit_and_push") =>
        /\ (call.changed = {}) =>
              /\ call.local = call.before.local
              /\ call.remote = call.before.remote
              /\ \A i \in 1..Len(call.git) : call.git[i] \in {"add", "status"}
              /\ (call.at \in {"returned", "node_done"}
                  /\ call.outcome # "Exception") =>
                    (call.outcome = "no_changes"
                     /\ call.git = <<"add", "status">>)
        /\ (call.at \in {"returned", "node_done"}
            /\ call.outcome # "Exception" /\ call.changed # {}) =>
              /\ call.git = <<"add", "status", "commit", "push">>
              /\ call.local = call.before.local + 1
              /\ call.remote = call.local
        /\ \A i \in 1..Len(call.git) :
              call.git[i] = "push" => (i > 1 /\ call.git[i - 1] = "commit")

\* the call has returned normally from a clean working tree
C29_Witness ==
    /\ call.fn = "commit_and_push"
    /\ call.at = "returned"
    /\ call.changed = {}
    /\ call.outcome = "no_changes"
    /\ call.git = <<"add", "status">>
    /\ call.before.local = 2

(***************************************************************************)
(* The blocking external calls of a run and their timeouts.  Time is in    *)
(* seconds and advances in ticks while the caller waits.                   *)
(***************************************************************************)
\* number of ticks a wait is followed for
MaxTicks == 12
TickSeconds == 30

ExternalCalls ==
    {"pip_install", "pytest", "npm_install", "jest", "flake8", "eslint",
     "git_clone", "git", "github_api"}

NoTimeout == 0

\* the timeout argument of each call; the request to the GitHub API has the
\* total timeout of the aiohttp session
timeout_of(tool) ==
    CASE tool = "pip_install" -> 180
      [] tool = "npm_install" -> 180
      [] tool = "jest" -> 120
      [] tool = "github_api" -> 300
      [] OTHER -> NoTimeout

\* seconds a tool that does not hang runs for
Durations == {0, 60, 200}

InitExternal ==
    /\ IdleWorkflow
    /\ \E tool \in ExternalCalls, hangs \in BOOLEAN, d \in Durations :
          /\ hangs => d = 0
          /\ call = [fn |-> "external", tool |-> tool, hangs |-> hangs,
                     duration |-> d, at |-> "idle", waited |-> 0,
                     outcome |-> "pending"]

\* subprocess.run / create_subprocess_exec / session.get is entered
StartCall ==
    /\ call.fn = "external"
    /\ call.at = "idle"
    /\ call' = [call EXCEPT !.at = "waiting"]
    /\ UNCHANGED workflow_vars

\* the caller keeps waiting
Tick ==
    /\ call.fn = "external"
    /\ call.at = "waiting"
    /\ call.waited < MaxTicks * TickSeconds
    /\ call.hangs \/ call.waited < call.duration
    /\ timeout_of(call.tool) = NoTimeout
          \/ call.waited < timeout_of(call.tool)
    /\ call' = [call EXCEPT !.waited = @ + TickSeconds]
    /\ UNCHANGED workflow_vars

\* the tool exits and the call returns its output
ToolExits ==
    /\ call.fn = "external"
    /\ call.at = "waiting"
    /\ ~call.hangs
    /\ call.waited >= call.duration
    /\ call' = [call EXCEPT !.at = "returned", !.outcome = "exited"]
    /\ UNCHANGED workflow_vars

\* the timeout passes: TimeoutExpired is raised in the caller
TimeoutExpires ==
    /\ call.fn = "external"
    /\ call.at = "waiting"
    /\ timeout_of(call.tool) # NoTimeout
    /\ call.waited >= timeout_of(call.tool)
    /\ call' = [call EXCEPT !.at = "returned", !.outcome = "TimeoutExpired"]
    /\ UNCHANGED workflow_vars

NextExternal ==
    \/ StartCall
    \/ Tick
    \/ ToolExits
    \/ TimeoutExpires

SpecExternal == InitExternal /\ [][NextExternal]_vars

\* C26: every blocking external call of a run carries a timeout, so the
\* caller of a tool that hangs never waits longer than the longest timeout.
C26_EveryCallHasTimeout ==
    (call.fn = "external" /\ call.at = "waiting") =>
        /\ timeout_of(call.tool) # NoTimeout
        /\ call.hangs => call.waited <= 300

(***************************************************************************)
(* Several runs on one server: POST /api/run, the background tasks, the    *)
(* registry, the checkpoint threads and the clone directories.  The clock  *)
(* is time.time() in milliseconds.                                         *)
(***************************************************************************)
\* largest number of runs started
MaxRuns == 2
\* milliseconds the clock advances
MaxClockTicks == 2
\* the clock starts just before a full second
StartClock == 998

Clock == StartClock..(StartClock + MaxClockTicks)
Repos == {"r1", "r2"}
Teams == {"t1", "t2"}

NoDir == <<>>

\* f"run_{int(time.time() * 1000)}"
run_id_of(now) == now

\* f"{team_name}_{int(time.time())}"
thread_id_of(team_name, now) == <<team_name, now \div 1000>>

\* f"{repo_name}_{timestamp}" under the base directory
repo_dir_of(repo_url, now) == <<repo_url, now>>

InitRuns ==
    /\ IdleWorkflow
    /\ call = [fn |-> "api", now |-> StartClock, tasks |-> <<>>,
               registry |-> [id \in Clock |-> [status |-> "absent"]],
               progress |-> [id \in Clock |-> <<>>],
               dirs |-> [d \in Repos \X Clock |-> "absent"]]

ClockTick ==
    /\ call.fn = "api"
    /\ call.now < StartClock + MaxClockTicks
    /\ call' = [call EXCEPT !.now = @ + 1]
    /\ UNCHANGED workflow_vars

\* POST /api/run: run_agent writes the entry and queues the task; the
\* requests sampled are r1 by either team and r2 by team t2
RunAgent ==
    /\ call.fn = "api"
    /\ Len(call.tasks) < MaxRuns
    /\ \E repo_url \in Repos, team_name \in Teams :
          /\ repo_url = "r2" => team_name = "t2"
          /\ LET run_id == run_id_of(call.now)
             IN  call' = [call EXCEPT
                     !.registry[run_id] =
                         [status |-> "RUNNING", repo_url |-> repo_url,
                          team_name |-> team_name],
                     !.progress[run_id] = <<>>,
                     !.tasks = Append(@,
                         [run_id |-> run_id, repo_url |-> repo_url,
                          team_name |-> team_name, at |-> "queued",
                          thread_id |-> <<>>, repo_dir |-> NoDir])]
    /\ UNCHANGED workflow_vars

\* _run_agent_task logs its two first messages and orchestrator.run picks
\* the checkpoint thread, with no await in between
TaskBegin(i) ==
    /\ call.tasks[i].at = "queued"
    /\ call' = [call EXCEPT
           !.progress[call.tasks[i].run_id] =
               @ \o <<call.tasks[i].repo_url, call.tasks[i].team_name>>,
           !.tasks[i].thread_id =
               thread_id_of(call.tasks[i].team_name, call.now),
           !.tasks[i].at = "clone"]
    /\ UNCHANGED workflow_vars

\* GitAgent.clone names the directory and git clone looks at it: a
\* directory that holds files makes the clone fail, a missing one is
\* created, an empty one is used as it is
CloneStart(i) ==
    /\ call.tasks[i].at = "clone"
    /\ LET dir == repo_dir_of(call.tasks[i].repo_url, call.now)
       IN  call' =
             IF call.dirs[dir] = "populated"
             THEN [call EXCEPT !.tasks[i].at = "working"]
             ELSE [call EXCEPT !.dirs[dir] = "empty",
                               !.tasks[i].repo_dir = dir,
                               !.tasks[i].at = "cloning"]
    /\ UNCHANGED workflow_vars

\* git clone writes the files; clone returns the directory
CloneFinish(i) ==
    /\ call.tasks[i].at = "cloning"
    /\ call' = [call EXCEPT !.dirs[call.tasks[i].repo_dir] = "populated",
                            !.tasks[i].at = "working"]
    /\ UNCHANGED workflow_vars

\* the workflow ends and _run_agent_task updates the entry of its run_id
TaskEnd(i) ==
    /\ call.tasks[i].at = "working"
    /\ call' = [call EXCEPT
           !.registry[call.tasks[i].run_id] =
               [status |-> "COMPLETED",
                repo_url |-> @.repo_url, team_name |-> @.team_name,
                result |-> call.tasks[i].repo_url],
           !.progress[call.tasks[i].run_id] = Append(@, "Completed!"),
           !.tasks[i].at = "done"]
    /\ UNCHANGED workflow_vars

NextRuns ==
    \/ ClockTick
    \/ RunAgent
    \/ \E i \in 1..Len(call.tasks) : TaskBegin(i)
    \/ \E i \in 1..Len(call.tasks) : CloneStart(i)
    \/ \E i \in 1..Len(call.tasks) : CloneFinish(i)
    \/ \E i \in 1..Len(call.tasks) : TaskEnd(i)

SpecRuns == InitRuns /\ [][NextRuns]_vars

\* C22: any two runs clone into different working directories.
C22_DistinctWorkDirs ==
    call.fn = "api" =>
        \A i, j \in 1..Len(call.tasks) :
            (i # j /\ call.tasks[i].repo_dir # NoDir) =>
                call.tasks[i].repo_dir # call.tasks[j].repo_dir

\* C23: any two runs have distinct run identifiers, hence distinct registry
\* entries and progress logs, and distinct checkpoint threads.
C23_DistinctRunState ==
    call.fn = "api" =>
        \A i, j \in 1..Len(call.tasks) :
            i # j =>
                /\ call.tasks[i].run_id # call.tasks[j].run_id
                /\ call.tasks[i].thread_id # <<>> =>
                      call.tasks[i].thread_id # call.tasks[j].thread_id

\* C33: commit_count grows by the number of commits the pass created on the
\* branch: a pass in which commit_and_push finds nothing to commit does not
\* increase it.
C33_CommitCountIsCommitsCreated ==
    (call.fn = "commit_and_push" /\ call.at = "node_done") =>
        call.commit_count = call.local - call.before.local

(***************************************************************************)
(* The progress stream of one run (api/main.py): the event generator of    *)
(* stream_run_progress polls the registry entry and the progress log of    *)
(* the run while _run_agent_task and cancel_run write them.  All three run *)
(* on one event loop, so the code between two suspension points (await,    *)
(* yield) is one step.                                                     *)
(***************************************************************************)
\* the statuses on which event_generator emits done and ends
TerminalStatuses == {"COMPLETED", "FAILED", "ERROR"}

\* run_agent has registered the run; the background task has not started and
\* no stream is open
InitStream ==
    /\ IdleWorkflow
    /\ call = [fn |-> "stream", status |-> "RUNNING", progress |-> <<>>,
               task |-> "pending", stream |-> "closed", last_count |-> 0,
               slice |-> <<>>, emitted |-> <<>>, done |-> FALSE]

\* _run_agent_task up to the await of orchestrator.run: two log_progress calls
RunAgentTaskBegin ==
    /\ call.fn = "stream"
    /\ call.task = "pending"
    /\ call' = [call EXCEPT !.progress = @ \o <<"Starting", "Team">>,
                            !.task = "running"]
    /\ UNCHANGED workflow_vars

\* _run_agent_task after orchestrator.run: the status update and the log
\* entries that follow it, without any await in between.  "saved": run
\* returned and results.json was written; "save_failed": save_results_file
\* raised after the COMPLETED update; "raised": run raised
RunAgentTaskEnd ==
    /\ call.fn = "stream"
    /\ call.task = "running"
    /\ \E outcome \in {"saved", "save_failed", "raised"} :
          call' = [call EXCEPT
              !.status = IF outcome = "saved" THEN "COMPLETED" ELSE "ERROR",
              !.progress = CASE outcome = "saved" -> Append(@, "Completed!")
                             [] outcome = "save_failed" ->
                                    @ \o <<"Completed!", "Error">>
                             [] outcome = "raised" -> Append(@, "Error"),
              !.task = "done"]
    /\ UNCHANGED workflow_vars

\* DELETE /api/run/{run_id} on the entry of the run
cancel_run ==
    /\ call.fn = "stream"
    /\ call.status # "CANCELLED"
    /\ call' = [call EXCEPT !.status = "CANCELLED"]
    /\ UNCHANGED workflow_vars

\* GET /api/run/{run_id}/stream: the generator is created with last_count = 0
StreamOpen ==
    /\ call.fn = "stream"
    /\ call.stream = "closed"
    /\ call' = [call EXCEPT !.stream = "poll", !.last_count = 0]
    /\ UNCHANGED workflow_vars

\* the top of the while loop: messages[last_count:] copies the new messages,
\* the loop yields the first of them; with none, last_count is set and the
\* status event is yielded
event_generator_poll(c) ==
    LET new == SubSeq(c.progress, c.last_count + 1, Len(c.progress))
    IN  IF new = <<>>
        THEN [c EXCEPT !.last_count = Len(c.progress), !.stream = "status"]
        ELSE [c EXCEPT !.slice = Tail(new),
                       !.emitted = Append(@, Head(new)),
                       !.stream = "emitting"]

EventGeneratorPoll ==
    /\ call.fn = "stream"
    /\ call.stream = "poll"
    /\ call' = event_generator_poll(call)
    /\ UNCHANGED workflow_vars

\* resumed after the yield of a progress event: the next message of the
\* copy, or, after the last one, last_count = len(messages) of the live list
\* and the yield of the status event
EventGeneratorResume ==
    /\ call.fn = "stream"
    /\ call.stream = "emitting"
    /\ call' = IF call.slice # <<>>
               THEN [call EXCEPT !.slice = Tail(@),
                                 !.emitted = Append(@, Head(call.slice))]
               ELSE [call EXCEPT !.last_count = Len(call.progress),
                                 !.stream = "status"]
    /\ UNCHANGED workflow_vars

\* resumed after the yield of the status event: done and break on a terminal
\* status, else asyncio.sleep(1) and the next round
EventGeneratorAfterStatus ==
    /\ call.fn = "stream"
    /\ call.stream = "status"
    /\ call' = IF call.status \in TerminalStatuses
               THEN [call EXCEPT !.done = TRUE, !.stream = "ended"]
               ELSE [call EXCEPT !.stream = "poll"]
    /\ UNCHANGED workflow_vars

NextStream ==
    \/ RunAgentTaskBegin
    \/ RunAgentTaskEnd
    \/ cancel_run
    \/ StreamOpen
    \/ EventGeneratorPoll
    \/ EventGeneratorResume
    \/ EventGeneratorAfterStatus

SpecStream == InitStream /\ [][NextStream]_vars

\* the event loop runs every task that is ready: the background task and the
\* generator of an open stream keep taking their steps; cancel requests and
\* the opening of a stream are up to the clients
FairSpecStream ==
    /\ SpecStream
    /\ WF_vars(RunAgentTaskBegin)
    /\ WF_vars(RunAgentTaskEnd)
    /\ WF_vars(EventGeneratorPoll)
    /\ WF_vars(EventGeneratorResume)
    /\ WF_vars(EventGeneratorAfterStatus)

\* C35: every stream that is opened eventually emits done and ends, the
\* task terminating, whenever cancel requests arrive.
C35_StreamEnds ==
    [](call.fn = "stream" =>
          (call.stream # "closed" => <>(call.done /\ call.stream = "ended")))

IsPrefix(s, t) == Len(s) <= Len(t) /\ s = SubSeq(t, 1, Len(s))

\* C37: the stream emits the progress messages of the run once each and in
\* the order of the log, and when it emits done it has emitted every message
\* appended up to the observation of the terminal status.
C37_StreamEmitsEveryMessage ==
    call.fn = "stream" =>
        /\ IsPrefix(call.emitted, call.progress)
        /\ call.done => call.emitted = call.progress

====
